---- MODULE Spec2Model ----
(***************************************************************************)
(* A model of mtuq's grid search (src/mtuq/grid_search.py) and waveform    *)
(* processing (src/mtuq/process_data.py).                                  *)
(*                                                                         *)
(* Three state machines share this module:                                 *)
(*   SpecGrid  the ranks of one grid_search call, from entry to return     *)
(*   Spec      one ProcessData instance and the calls made on it           *)
(*   SpecCtor  the construction of a ProcessData instance, and first calls *)
(* Each leaves the other's variables alone.                                *)
(***************************************************************************)
EXTENDS Integers, Sequences, FiniteSets, TLC

VARIABLES
    \* ---- grid_search ----
    gs,         \* the arguments and environment of the grid_search call
    pc,         \* rank -> where that rank is in grid_search
    inbox,      \* rank -> the partition comm.scatter holds for it
    local,      \* rank -> its local `sources` and `msg_interval`
    partial,    \* rank -> what _grid_search_serial returned to it
    calls,      \* rank -> the misfit invocations it made, in order
    ret,        \* rank -> what grid_search returned to it
    coll,       \* rank -> the collective operations it has taken part in
    \* ---- ProcessData ----
    ctor,       \* the keyword arguments __init__ was called with, if it was
    self,       \* the instance's configuration, as __init__ left it
    picks,      \* self._picks: id -> pick record
    windows,    \* self._windows: id -> window record
    heap,       \* the bundle objects: 1 the caller's, 2 the deep copy
    call        \* the last __call__: its arguments and how it ended

gridVars == <<gs, pc, inbox, local, partial, calls, ret, coll>>
pdVars   == <<ctor, self, picks, windows, heap, call>>
vars     == <<gs, pc, inbox, local, partial, calls, ret, coll,
              self, picks, windows, heap, call>>

(***************************************************************************)
(* Bounds of the model.                                                    *)
(***************************************************************************)
MaxSources == 3
MaxOrigins == 2
MaxProcs == 3
MaxTraces == 2

\* the default of grid_search's msg_interval
DefaultMsgInterval == 25

(***************************************************************************)
(* Helpers on sequences.                                                   *)
(***************************************************************************)
RECURSIVE SumLen(_)
SumLen(ss) == IF ss = <<>> THEN 0 ELSE Len(Head(ss)) + SumLen(Tail(ss))

RECURSIVE Flatten(_)
Flatten(ss) == IF ss = <<>> THEN <<>> ELSE Head(ss) \o Flatten(Tail(ss))

(***************************************************************************)
(* Matrices: numpy arrays of shape (nj, ni), held as nj rows of ni values. *)
(***************************************************************************)
Matrix(nj, ni, val) == [nj |-> nj, ni |-> ni, val |-> val]
NoMatrix == [has |-> FALSE, m |-> Matrix(0, 0, <<>>)]
Some(m) == [has |-> TRUE, m |-> m]

\* np.concatenate(ms, axis=1): the columns side by side; needs at least one
\* array, all with the same number of rows
ConcatAxis1Ok(ms) ==
    /\ ms # <<>>
    /\ \A k \in 1..Len(ms) : ms[k].nj = ms[1].nj

RECURSIVE RowOf(_, _)
RowOf(ms, j) ==
    IF ms = <<>> THEN <<>> ELSE Head(ms).val[j] \o RowOf(Tail(ms), j)

RECURSIVE SumNi(_)
SumNi(ms) == IF ms = <<>> THEN 0 ELSE Head(ms).ni + SumNi(Tail(ms))

ConcatAxis1(ms) ==
    Matrix(ms[1].nj, SumNi(ms), [j \in 1..ms[1].nj |-> RowOf(ms, j)])

\* np.concatenate(ms) (axis 0): the rows one block under the other; needs at
\* least one array, all with the same number of columns
ConcatAxis0Ok(ms) ==
    /\ ms # <<>>
    /\ \A k \in 1..Len(ms) : ms[k].ni = ms[1].ni

RECURSIVE RowsOf(_)
RowsOf(ms) == IF ms = <<>> THEN <<>> ELSE Head(ms).val \o RowsOf(Tail(ms))

RECURSIVE SumNj(_)
SumNj(ms) == IF ms = <<>> THEN 0 ELSE Head(ms).nj + SumNj(Tail(ms))

ConcatAxis0(ms) == Matrix(SumNj(ms), ms[1].ni, RowsOf(ms))

(***************************************************************************)
(* ProcessData: values                                                     *)
(*                                                                         *)
(* Times are in seconds, distances in km, frequencies in mHz, exponents in *)
(* tenths.  None is the string "None".                                     *)
(***************************************************************************)
None == "None"

\* line 174, 190: self.scaling_distance = 1.e5 (m)
DefaultScalingDistance == 100
\* line 169: self.scaling_power = 1.
BwScalingPower == 10
\* line 185: self.scaling_power = 0.5
SwScalingPower == 5
\* line 152: self.padding_length = 0.
DefaultPaddingLength == 0

Ids == {"A", "B"}

\* one operation applied to a trace's samples
Op(name, a, b, c) == [op |-> name, a |-> a, b |-> b, c |-> c]

\* A trace: its channel code (a sequence of characters), the samples it was
\* read with (raw) and the operations applied to them since (data), and its
\* weight attribute.
Trace(channel, raw) ==
    [channel |-> channel, raw |-> raw, data |-> <<>>,
     hasWeight |-> FALSE, weight |-> 0]

Channels == { <<>>, <<"H", "Z">>, <<"H", "r">>, <<"H", "T">> }

ChannelSeqs == UNION { [1..n -> Channels] : n \in 0..MaxTraces }

TagLists == { <<"units:cm", "type:velocity">>,
              <<"units:m", "type:displacement">>,
              <<"type:greens", "units:m">> }

\* The scenarios a call is made in: 0 stands for no origin (None).  A
\* scenario fixes the origin (its time, its distance to the station), the
\* samples recorded for it, and what the pick sources (travel time tables,
\* SAC headers, the pick file on disk) hold when the call is made.
Scenarios == 1..4

\* float(origin.time)
OriginTime(v) == 100 * v

\* gps2dist_azimuth(origin, station)[0]
DistanceOf(v) == IF v % 2 = 1 THEN 400 ELSE 900

\* what a pick source holds: a value, or nothing
Val(x) == [has |-> TRUE, v |-> x]
Nothing == [has |-> FALSE, v |-> 0]

\* self._taup.get_travel_times(...): the arrivals by phase name
Arrivals(v) ==
    CASE v = 1 -> [p |-> Val(3), P |-> Val(4), s |-> Val(7), S |-> Val(8)]
      [] v = 2 -> [p |-> Nothing, P |-> Val(5), s |-> Nothing, S |-> Val(9)]
      [] v = 3 -> [p |-> Val(3), P |-> Nothing, s |-> Nothing, S |-> Nothing]
      [] OTHER -> [p |-> Nothing, P |-> Nothing, s |-> Nothing, S |-> Nothing]

\* the SAC headers of the FK Green's function file for the scenario's depth
\* and distance (exists: obspy.read finds the file), and of the bundle's
\* first trace
SacHeaders(v) ==
    CASE v = 1 -> [exists |-> TRUE, t1 |-> Val(3), t2 |-> Val(7),
                   t5 |-> Val(3), t6 |-> Val(7)]
      [] v = 2 -> [exists |-> TRUE, t1 |-> Val(5), t2 |-> Val(9),
                   t5 |-> Val(5), t6 |-> Val(9)]
      [] v = 3 -> [exists |-> TRUE, t1 |-> Val(3), t2 |-> Nothing,
                   t5 |-> Val(3), t6 |-> Nothing]
      [] OTHER -> [exists |-> FALSE, t1 |-> Nothing, t2 |-> Nothing,
                   t5 |-> Nothing, t6 |-> Nothing]

\* the rows of the pick file as the call finds it: id, P, S; a row whose
\* column is missing or not a number has Nothing there
PickFile(v) ==
    CASE v = 1 -> << [id |-> "A", P |-> Val(3), S |-> Val(7)] >>
      [] v = 2 -> << [id |-> "A", P |-> Val(5), S |-> Val(9)],
                     [id |-> "B", P |-> Val(4), S |-> Val(8)] >>
      [] v = 3 -> << [id |-> "B", P |-> Val(4), S |-> Val(8)],
                     [id |-> "A", P |-> Val(3), S |-> Nothing] >>
      [] OTHER -> << >>

\* parse_weight_file(cap_weight_file): id -> row; row[k] of the code is
\* row[k + 1] here.  Station B has no row.
WeightTable == [id \in {"A"} |-> <<400, 1, 0, 2, -1, 0>>]

\* row[k] with the code's 0-based index
RowAt(row, k) == row[k + 1]

(***************************************************************************)
(* ProcessData.__init__                                                    *)
(*                                                                         *)
(* The keyword arguments are p.keys (the names supplied), p.val (their     *)
(* values) and p.exists (the names whose path exists on disk).             *)
(***************************************************************************)
ParamNames ==
    {"period_min", "period_max", "freq_min", "freq_max", "freq", "period",
     "taup_model", "fk_database", "pick_file",
     "window_length", "padding_length",
     "cap_weight_file", "scaling_power", "scaling_distance", "scaling power"}

\* x**-1, from a period in seconds to a frequency in mHz
Inverse(x) == 1000 \div x

\* lines 51-93: "" when the filter parameters pass, else the error raised
FilterCheck(p) ==
    LET k == p.keys
        v == p.val
        fromPeriods == "period_min" \in k /\ "period_max" \in k
        fromPeriod == "period" \in k
    IN  CASE p.filter_type = None -> ""
          [] p.filter_type = "Bandpass" ->
                IF fromPeriods /\ ("freq_min" \in k \/ "freq_max" \in k)
                THEN "AssertionError"
                ELSE IF fromPeriods /\ (v["period_min"] = 0 \/ v["period_max"] = 0)
                THEN "ZeroDivisionError"
                ELSE IF ~fromPeriods /\ ("freq_min" \notin k \/ "freq_max" \notin k)
                THEN "ValueError"
                ELSE LET fmin == IF fromPeriods THEN Inverse(v["period_max"])
                                 ELSE v["freq_min"]
                         fmax == IF fromPeriods THEN Inverse(v["period_min"])
                                 ELSE v["freq_max"]
                     IN  IF 0 < fmin /\ fmin < fmax THEN "" ELSE "AssertionError"
          [] p.filter_type \in {"Lowpass", "Highpass"} ->
                IF fromPeriod /\ "freq" \in k THEN "AssertionError"
                ELSE IF fromPeriod /\ v["period"] = 0 THEN "ZeroDivisionError"
                ELSE IF ~fromPeriod /\ "freq" \notin k THEN "ValueError"
                ELSE LET f == IF fromPeriod THEN Inverse(v["period"])
                              ELSE v["freq"]
                     IN  IF p.filter_type = "Lowpass"
                         THEN (IF 0 < f THEN "" ELSE "AssertionError")
                         ELSE (IF 0 <= f THEN "" ELSE "AssertionError")
          [] OTHER -> "ValueError"

\* lines 57-88: the corner frequencies __init__ stores (lo = hi for a
\* one-corner filter)
FilterFreqs(p) ==
    IF p.filter_type = "Bandpass"
    THEN IF "period_min" \in p.keys /\ "period_max" \in p.keys
         THEN [lo |-> Inverse(p.val["period_max"]),
               hi |-> Inverse(p.val["period_min"])]
         ELSE [lo |-> p.val["freq_min"], hi |-> p.val["freq_max"]]
    ELSE IF "period" \in p.keys
         THEN [lo |-> Inverse(p.val["period"]), hi |-> Inverse(p.val["period"])]
         ELSE [lo |-> p.val["freq"], hi |-> p.val["freq"]]

\* lines 99-127
PickCheck(p) ==
    CASE p.pick_type = None -> "Exception"
      [] p.pick_type = "from_taup_model" ->
            IF "taup_model" \in p.keys THEN "" ELSE "AssertionError"
      [] p.pick_type = "from_fk_metadata" ->
            IF "fk_database" \in p.keys THEN "" ELSE "AssertionError"
      [] p.pick_type = "from_sac_metadata" -> ""
      [] p.pick_type = "from_cap_weight_file" -> "NotImplementedError"
      [] p.pick_type = "from_pick_file" ->
            IF "pick_file" \notin p.keys THEN "KeyError"
            ELSE IF "pick_file" \in p.exists THEN "" ELSE "AssertionError"
      [] OTHER -> "ValueError"

\* lines 133-152
WindowCheck(p) ==
    CASE p.window_type = None ->
            IF "window_length" \in p.keys THEN "" ELSE "KeyError"
      [] p.window_type \in {"cap_bw", "cap_sw"} ->
            IF "window_length" \in p.keys THEN "" ELSE "AssertionError"
      [] OTHER -> "ValueError"

\* lines 158-194
WeightCheck(p) ==
    CASE p.weight_type = None -> ""
      [] p.weight_type \in {"cap_bw", "cap_sw"} ->
            IF "cap_weight_file" \notin p.keys THEN "AssertionError"
            ELSE IF "cap_weight_file" \notin p.exists THEN "AssertionError"
            ELSE IF "scaling power" \in p.keys /\ "scaling_power" \notin p.keys
            THEN "KeyError"
            ELSE ""
      [] OTHER -> "ValueError"

\* lines 166-169, 182-185: the exponent __init__ stores
ScalingPower(p) ==
    IF "scaling power" \in p.keys
    THEN p.val["scaling_power"]
    ELSE IF p.weight_type = "cap_bw" THEN BwScalingPower ELSE SwScalingPower

\* lines 171-174, 187-190
ScalingDistance(p) ==
    IF "scaling_distance" \in p.keys
    THEN p.val["scaling_distance"]
    ELSE DefaultScalingDistance

\* the first check that fails, in the order __init__ makes them
InitError(p) ==
    IF FilterCheck(p) # "" THEN FilterCheck(p)
    ELSE IF PickCheck(p) # "" THEN PickCheck(p)
    ELSE IF WindowCheck(p) # "" THEN WindowCheck(p)
    ELSE WeightCheck(p)

\* lines 41-197: the instance __init__ leaves, or the error it raises
ProcessDataInit(p) ==
    LET err == InitError(p)
        ok == err = ""
        weighted == ok /\ p.weight_type # None
    IN  [ok |-> ok,
         err |-> err,
         filter_type |-> IF ok THEN p.filter_type ELSE None,
         freq_min |-> IF ok /\ p.filter_type = "Bandpass"
                      THEN FilterFreqs(p).lo ELSE 0,
         freq_max |-> IF ok /\ p.filter_type = "Bandpass"
                      THEN FilterFreqs(p).hi ELSE 0,
         freq |-> IF ok /\ p.filter_type \in {"Lowpass", "Highpass"}
                  THEN FilterFreqs(p).lo ELSE 0,
         pick_type |-> IF ok THEN p.pick_type ELSE None,
         \* self._fk_database, by whether the path leads anywhere
         fk_database |-> ok /\ p.pick_type = "from_fk_metadata"
                         /\ "fk_database" \in p.exists,
         window_type |-> IF ok THEN p.window_type ELSE None,
         window_length |-> IF ok THEN p.val["window_length"] ELSE 0,
         padding_length |-> IF ok /\ "padding_length" \in p.keys
                            THEN p.val["padding_length"]
                            ELSE DefaultPaddingLength,
         weight_type |-> IF ok THEN p.weight_type ELSE None,
         scaling_power |-> IF weighted THEN ScalingPower(p) ELSE 0,
         scaling_distance |-> IF weighted THEN ScalingDistance(p) ELSE 0]

\* The keyword arguments the instances of Spec are constructed with.
Params(ft, pt, wt, gt, keys, val) ==
    [filter_type |-> ft, pick_type |-> pt, window_type |-> wt,
     weight_type |-> gt, keys |-> keys, val |-> val,
     exists |-> {"fk_database", "pick_file", "cap_weight_file"}]

ParamValues ==
    [n \in ParamNames |->
        CASE n = "freq_min" -> 100
          [] n = "freq_max" -> 333
          [] n = "window_length" -> 10
          [] n = "padding_length" -> 2
          [] OTHER -> 0]

KeysFor(ft, pt, wt, gt) ==
    (IF ft = "Bandpass" THEN {"freq_min", "freq_max"} ELSE {})
    \cup (CASE pt = "from_taup_model" -> {"taup_model"}
            [] pt = "from_fk_metadata" -> {"fk_database"}
            [] pt = "from_pick_file" -> {"pick_file"}
            [] OTHER -> {})
    \cup {"window_length"}
    \cup (IF wt # None THEN {"padding_length"} ELSE {})
    \cup (IF gt # None THEN {"cap_weight_file"} ELSE {})

SpecParams ==
    { Params(ft, pt, wt, gt, KeysFor(ft, pt, wt, gt), ParamValues) :
        ft \in {None, "Bandpass"},
        pt \in {"from_taup_model", "from_fk_metadata", "from_sac_metadata",
                "from_pick_file"},
        wt \in {None, "cap_bw", "cap_sw"},
        gt \in {None, "cap_bw", "cap_sw"} }

(***************************************************************************)
(* ProcessData.__call__: the bundle and the caches                         *)
(***************************************************************************)
\* A bundle: station and origin are the attributes attached to it (0: none;
\* an origin is named by its scenario).
Bundle(hasId, id, hasTags, tags, traces, station, origin, prelim) ==
    [hasId |-> hasId, id |-> id, hasTags |-> hasTags, tags |-> tags,
     traces |-> traces, station |-> station, origin |-> origin,
     preliminary_origin |-> prelim]

NoBundle == Bundle(FALSE, "A", FALSE, <<>>, <<>>, 0, 0, 0)

NoPick == [in |-> FALSE, P |-> Nothing, S |-> Nothing]
NoWindow == [in |-> FALSE, t1 |-> 0, t2 |-> 0]
NoCut == [has |-> FALSE, starttime |-> 0, endtime |-> 0]

\* every trace's samples go through one more operation
ApplyAll(traces, op) ==
    [k \in 1..Len(traces) |->
        [traces[k] EXCEPT !.data = Append(@, op)]]

\* tags.index(t): the first place t stands at
RECURSIVE IndexOf(_, _, _)
IndexOf(tags, t, k) ==
    IF tags[k] = t THEN k ELSE IndexOf(tags, t, k + 1)

InTags(tags, t) == \E k \in 1..Len(tags) : tags[k] = t

Retag(tags, old, new) == [tags EXCEPT ![IndexOf(tags, old, 1)] = new]

\* The frame of one call: st is "run" until something raises.
Raise(f, err) == [f EXCEPT !.st = "raised", !.err = err]

\* lines 209-216
ResolveStation(args, b) == IF args.station # 0 THEN args.station ELSE b.station

ResolveOrigin(args, b) ==
    IF args.origin # 0 THEN args.origin
    ELSE IF b.origin # 0 THEN b.origin
    ELSE b.preliminary_origin

\* the preamble with the identifier as its only test
PreambleIdOnly(f) ==
    IF ~f.b.hasId THEN Raise(f, "Missing station identifier") ELSE f

\* lines 224-244: what must be there before any processing
Preamble(f) ==
    IF ~f.b.hasId THEN Raise(f, "Missing station identifier")
    ELSE IF f.origin = 0 \/ f.station = 0 THEN Raise(f, "AttributeError")
    ELSE IF f.b.traces = <<>> THEN Raise(f, "IndexError")
    ELSE IF ~f.b.hasTags THEN Raise(f, "Missing tags attribute")
    ELSE f

\* lines 247-252
UnitsStage(f) ==
    IF f.st # "run" \/ ~InTags(f.b.tags, "units:cm") THEN f
    ELSE [f EXCEPT !.b.traces = ApplyAll(@, Op("mul_1e-2", 0, 0, 0)),
                   !.b.tags = Retag(@, "units:cm", "units:m")]

\* lines 259-282
Filtered(slf, traces) ==
    LET pre == ApplyAll(ApplyAll(ApplyAll(traces,
                   Op("detrend_demean", 0, 0, 0)),
                   Op("detrend_linear", 0, 0, 0)),
                   Op("taper_hann", 5, 0, 0))
    IN  CASE slf.filter_type = "Bandpass" ->
                ApplyAll(pre, Op("bandpass", slf.freq_min, slf.freq_max, 0))
          [] slf.filter_type = "Lowpass" ->
                ApplyAll(pre, Op("lowpass", slf.freq, 0, 0))
          [] slf.filter_type = "Highpass" ->
                ApplyAll(pre, Op("highpass", slf.freq, 0, 0))
          [] OTHER -> traces

FilterStage(slf, f) ==
    IF f.st # "run" THEN f
    ELSE [f EXCEPT !.b.traces = Filtered(slf, @)]

\* lines 284-289
VelocityStage(f) ==
    IF f.st # "run" \/ ~InTags(f.b.tags, "type:velocity") THEN f
    ELSE [f EXCEPT !.b.traces = ApplyAll(@, Op("cumsum_dt", 0, 0, 0)),
                   !.b.tags = Retag(@, "type:velocity", "type:displacement")]

(***************************************************************************)
(* part 2: phase picks (lines 299-355)                                     *)
(***************************************************************************)
\* picks.P = <p>; picks.S = <s> on the record of id, each right-hand side
\* evaluated before its assignment: a missing value raises and leaves what
\* was assigned so far
AssignPS(f, id, p, s, err) ==
    IF ~p.has THEN Raise(f, err)
    ELSE LET g == [f EXCEPT !.picks[id].P = p]
         IN  IF ~s.has THEN Raise(g, err)
             ELSE [g EXCEPT !.picks[id].S = s]

\* lines 352-355: the rows of the pick file from row k on; self._picks[_id]
\* makes the record of _id when there is none
RECURSIVE ReadPickRows(_, _, _)
ReadPickRows(f, rows, k) ==
    IF k > Len(rows) THEN f
    ELSE LET row == rows[k]
         IN  IF ~row.P.has THEN Raise(f, "ValueError")
             ELSE LET g == [f EXCEPT !.picks[row.id].in = TRUE,
                                     !.picks[row.id].P = row.P]
                  IN  IF ~row.S.has THEN Raise(g, "ValueError")
                      ELSE ReadPickRows(
                              [g EXCEPT !.picks[row.id].S = row.S],
                              rows, k + 1)

\* get_arrival(arrivals, lower), and on failure get_arrival(arrivals, upper)
FirstArrival(lower, upper) == IF lower.has THEN lower ELSE upper

\* the branch taken when the identifier has no pick record yet
ComputePicks(slf, f) ==
    LET id == f.b.id
        \* line 304: picks = self._picks[id] makes the record
        g == [f EXCEPT !.picks[id] = [in |-> TRUE, P |-> Nothing, S |-> Nothing]]
    IN  CASE slf.pick_type = "from_taup_model" ->
                LET arr == Arrivals(f.origin)
                IN  AssignPS(g, id, FirstArrival(arr.p, arr.P),
                             FirstArrival(arr.s, arr.S), "Exception")
          [] slf.pick_type = "from_fk_metadata" ->
                LET hdr == SacHeaders(f.origin)
                IN  IF ~slf.fk_database \/ ~hdr.exists THEN Raise(g, "IOError")
                    ELSE AssignPS(g, id, hdr.t1, hdr.t2, "AttributeError")
          [] slf.pick_type = "from_sac_metadata" ->
                LET hdr == SacHeaders(f.b.traces[1].raw)
                IN  IF ~hdr.exists THEN Raise(g, "AttributeError")
                    ELSE AssignPS(g, id, hdr.t5, hdr.t6, "AttributeError")
          [] slf.pick_type = "from_cap_weight_file" ->
                Raise(g, "NotImplementedError")
          [] slf.pick_type = "from_pick_file" ->
                ReadPickRows(g, PickFile(f.origin), 1)
          [] OTHER -> g

PickStage(slf, f) ==
    IF f.st # "run" \/ slf.pick_type = None \/ f.picks[f.b.id].in THEN f
    ELSE ComputePicks(slf, f)

(***************************************************************************)
(* part 3: windows, cut and taper (lines 366-428)                          *)
(***************************************************************************)
\* tenths * length / 10: 0.4*self.window_length, 0.3*self.window_length
Fraction(tenths, length) == (tenths * length) \div 10

\* lines 370-387: the branch taken when the identifier has no window yet
ComputeWindow(slf, f) ==
    LET id == f.b.id
        origin_time == OriginTime(f.origin)
        \* line 371: picks = self._picks[id] makes the record if there is none
        g == [f EXCEPT !.picks[id].in = TRUE]
        pk == g.picks[id]
    IN  CASE slf.window_type = "cap_bw" ->
                IF ~pk.P.has THEN Raise(g, "AttributeError")
                ELSE LET t1 == pk.P.v - Fraction(4, slf.window_length)
                         t2 == t1 + slf.window_length
                     IN  [g EXCEPT !.windows[id] =
                             [in |-> TRUE, t1 |-> t1 + origin_time,
                              t2 |-> t2 + origin_time]]
          [] slf.window_type = "cap_sw" ->
                IF ~pk.S.has THEN Raise(g, "AttributeError")
                ELSE LET t3 == pk.S.v - Fraction(3, slf.window_length)
                         t4 == t3 + slf.window_length
                     IN  [g EXCEPT !.windows[id] =
                             [in |-> TRUE, t1 |-> t3 + origin_time,
                              t2 |-> t4 + origin_time]]
          [] slf.window_type = "taup_bw" -> Raise(g, "NotImplementedError")
          [] OTHER -> g

\* the window stage without the cache test: the window is derived again on
\* every call
WindowStageRecomputed(slf, f) ==
    IF f.st # "run" \/ slf.window_type = None THEN f
    ELSE ComputeWindow(slf, f)

WindowStage(slf, f) ==
    IF f.st # "run" \/ slf.window_type = None \/ f.windows[f.b.id].in THEN f
    ELSE ComputeWindow(slf, f)

\* the cut bounds were every bundle padded
CutBoundsPadded(slf, window, tags) ==
    [has |-> TRUE, starttime |-> window.t1 - slf.padding_length,
     endtime |-> window.t2 + slf.padding_length]

\* lines 398-413: the cut bounds, from the cached window
CutBounds(slf, window, tags) ==
    IF InTags(tags, "type:greens")
    THEN [has |-> TRUE, starttime |-> window.t1 - slf.padding_length,
          endtime |-> window.t2 + slf.padding_length]
    ELSE [has |-> TRUE, starttime |-> window.t1, endtime |-> window.t2]

\* lines 419-428
CutTaperStage(slf, f) ==
    IF f.st # "run" THEN f
    ELSE IF slf.window_type = None
    THEN [f EXCEPT !.b.traces = ApplyAll(@, Op("taper", 0, 0, 0))]
    ELSE IF ~f.windows[f.b.id].in THEN Raise(f, "KeyError")
    ELSE LET c == CutBounds(slf, f.windows[f.b.id], f.b.tags)
         IN  [f EXCEPT !.cut = c,
                       !.b.traces =
                           ApplyAll(ApplyAll(@,
                               Op("cut", c.starttime, c.endtime, 0)),
                               Op("taper", 0, 0, 0))]

(***************************************************************************)
(* part 4: weights (lines 435-503)                                         *)
(***************************************************************************)
\* str.upper() on one character
Upper(c) ==
    CASE c = "z" -> "Z" [] c = "r" -> "R" [] c = "t" -> "T" [] OTHER -> c

\* trace.stats.channel[-1].upper()
Component(channel) == Upper(channel[Len(channel)])

\* lines 450-457 and 481-490: the weight looked up for a component
ResolvedWeight(weight_type, weights, id, component) ==
    IF id \notin DOMAIN weights THEN 0
    ELSE IF weight_type = "cap_bw"
    THEN CASE component = "Z" -> RowAt(weights[id], 1)
           [] component = "R" -> RowAt(weights[id], 2)
           [] OTHER -> 0
    ELSE CASE component = "Z" -> RowAt(weights[id], 3)
           [] component = "R" -> RowAt(weights[id], 4)
           [] component = "T" -> RowAt(weights[id], 5)
           [] OTHER -> 0

\* Trace.__eq__: the same stats and the same samples
SameTrace(t, u) == t.channel = u.channel /\ t.raw = u.raw /\ t.data = u.data

\* Stream.remove(trace): the first trace equal to it goes
RECURSIVE RemoveFirst(_, _)
RemoveFirst(cur, t) ==
    IF cur = <<>> THEN <<>>
    ELSE IF SameTrace(Head(cur).trace, t) THEN Tail(cur)
    ELSE <<Head(cur)>> \o RemoveFirst(Tail(cur), t)

\* lines 443-462, 474-495: the loop over the traces the bundle held when the
\* loop began (Stream.__iter__ iterates over a copy of the list), from the
\* k-th on; cur is the bundle's list as it stands, each trace with the place
\* it had at the start
RECURSIVE WeightLoop(_, _, _, _, _)
WeightLoop(slf, id, snapshot, k, cur) ==
    IF k > Len(snapshot) THEN cur
    ELSE LET t == snapshot[k]
         IN  IF t.channel = <<>>
             THEN WeightLoop(slf, id, snapshot, k + 1, cur)
             ELSE LET weight == ResolvedWeight(slf.weight_type, WeightTable,
                                               id, Component(t.channel))
                  IN  IF weight # 0
                      THEN WeightLoop(slf, id, snapshot, k + 1,
                              [n \in 1..Len(cur) |->
                                  IF cur[n].at = k
                                  THEN [cur[n] EXCEPT !.trace.hasWeight = TRUE,
                                                      !.trace.weight = weight]
                                  ELSE cur[n]])
                      ELSE WeightLoop(slf, id, snapshot, k + 1,
                                      RemoveFirst(cur, t))

\* the same loop were the bundle a plain list: the iterator walks the live
\* list, and a removal makes it step over the next trace
RECURSIVE LiveListLoop(_, _, _, _)
LiveListLoop(slf, id, k, cur) ==
    IF k > Len(cur) THEN cur
    ELSE LET t == cur[k].trace
         IN  IF t.channel = <<>>
             THEN LiveListLoop(slf, id, k + 1, cur)
             ELSE LET weight == ResolvedWeight(slf.weight_type, WeightTable,
                                               id, Component(t.channel))
                  IN  IF weight # 0
                      THEN LiveListLoop(slf, id, k + 1,
                              [cur EXCEPT ![k].trace.hasWeight = TRUE,
                                          ![k].trace.weight = weight])
                      ELSE LiveListLoop(slf, id, k + 1, RemoveFirst(cur, t))

Placed(traces) == [k \in 1..Len(traces) |-> [at |-> k, trace |-> traces[k]]]
Unplaced(cur) == [k \in 1..Len(cur) |-> cur[k].trace]

\* the first loop over the live list
WeightedTracesLiveList(slf, id, tags, traces) ==
    IF InTags(tags, "type:greens") THEN traces
    ELSE Unplaced(LiveListLoop(slf, id, 1, Placed(traces)))

\* the first loop: the traces left, with their weights
WeightedTraces(slf, id, tags, traces) ==
    IF InTags(tags, "type:greens") THEN traces
    ELSE Unplaced(WeightLoop(slf, id, traces, 1, Placed(traces)))

\* the second loop were it to leave Green's functions alone
ScaledTracesDataOnly(slf, tags, traces, distance) ==
    IF InTags(tags, "type:greens") THEN traces
    ELSE ApplyAll(traces, Op("scale", distance, slf.scaling_distance,
                             slf.scaling_power))

\* lines 464-466, 498-500: the second loop
ScaledTraces(slf, tags, traces, distance) ==
    ApplyAll(traces, Op("scale", distance, slf.scaling_distance,
                        slf.scaling_power))

\* lines 437-438: trace.weight = 1. on every trace
UniformWeight(traces) ==
    [k \in 1..Len(traces) |->
        [traces[k] EXCEPT !.hasWeight = TRUE, !.weight = 1]]

WeightStage(slf, f) ==
    IF f.st # "run" THEN f
    ELSE IF slf.weight_type = None
    THEN [f EXCEPT !.b.traces = UniformWeight(@)]
    ELSE [f EXCEPT !.b.traces =
             ScaledTraces(slf, f.b.tags,
                          WeightedTraces(slf, f.b.id, f.b.tags, @),
                          DistanceOf(f.origin))]

(***************************************************************************)
(* ProcessData.__call__ as one step                                        *)
(***************************************************************************)
\* the call working on the caller's object whatever overwrite is
WorkRefAliased(overwrite) == 1

\* lines 219-222: the object the call works on: 1 is the caller's bundle, 2
\* a deep copy of it
WorkRef(overwrite) == IF overwrite THEN 1 ELSE 2

\* lines 209-216: the frame the call starts with
Frame(args, b, pk, win) ==
    [st |-> "run", err |-> "", b |-> b,
     station |-> ResolveStation(args, b),
     origin |-> ResolveOrigin(args, b),
     picks |-> pk, windows |-> win, cut |-> NoCut]

\* The bundles calls are made on: traces of one recording (the scenario's),
\* with the scenario's origin attached.  At most one thing is out of the
\* ordinary in a bundle:
\*   no_id, no_tags, no_station, no_origin   the attribute is missing
\*   preliminary                             only a preliminary origin
\*   origin_arg, station_arg                 passed as arguments instead
Oddities == {"none", "no_id", "no_tags", "no_station", "no_origin",
             "preliminary", "origin_arg", "station_arg"}

InputBundle(id, tags, chans, v, odd) ==
    Bundle(odd # "no_id", id, odd # "no_tags", tags,
           [k \in 1..Len(chans) |-> Trace(chans[k], v)],
           IF odd \in {"no_station", "station_arg"} THEN 0 ELSE 1,
           IF odd \in {"no_origin", "preliminary", "origin_arg"} THEN 0 ELSE v,
           IF odd = "preliminary" THEN v ELSE 0)

InputArgs(v, odd, overwrite) ==
    [station |-> IF odd = "station_arg" THEN 1 ELSE 0,
     origin |-> IF odd = "origin_arg" THEN v ELSE 0,
     overwrite |-> overwrite]

\* Three families of inputs: bundles of every shape, ordinary in all else
\* and not overwritten; one shape of bundle with every tag list in every
\* scenario, overwritten or not; and one shape of bundle with every oddity,
\* overwritten or not.
CallInputs ==
    { [b |-> InputBundle(id, tags, chans, 1, "none"),
       args |-> InputArgs(1, "none", FALSE)] :
        id \in Ids, tags \in TagLists, chans \in ChannelSeqs }
    \cup
    { [b |-> InputBundle(id, tags, << <<"H", "Z">>, <<"H", "r">> >>, v, "none"),
       args |-> InputArgs(v, "none", overwrite)] :
        id \in Ids, tags \in TagLists, v \in Scenarios, overwrite \in BOOLEAN }
    \cup
    { [b |-> InputBundle(id, <<"units:cm", "type:velocity">>,
                         << <<"H", "Z">>, <<"H", "r">> >>, 1, odd),
       args |-> InputArgs(1, odd, overwrite)] :
        id \in Ids, odd \in Oddities, overwrite \in BOOLEAN }

NoCall ==
    [status |-> "none", err |-> "", args |-> InputArgs(0, "none", FALSE),
     input |-> NoBundle, ret |-> 0, cut |-> NoCut, origin |-> 0,
     hadPick |-> FALSE, hadWindow |-> FALSE]

\* before __init__ is called
NoCtor == [done |-> FALSE, p |-> Params(None, None, None, None, {}, ParamValues)]
Constructed(p) == [done |-> TRUE, p |-> p]

PdInit ==
    /\ \E p \in SpecParams :
          /\ ctor = Constructed(p)
          /\ self = ProcessDataInit(p)
    /\ self.ok
    /\ picks = [id \in Ids |-> NoPick]
    /\ windows = [id \in Ids |-> NoWindow]
    /\ heap = [o \in 1..2 |-> NoBundle]
    /\ call = NoCall

\* one call of the instance: processed = self(traces, station, origin,
\* overwrite), stage after stage
CallWith(inputs) ==
    /\ self.ok
    /\ call.status = "none"
    /\ \E in \in inputs :
       \E w \in {WorkRef(in.args.overwrite)} :
       \* the caller's object, and the deep copy when one is made
       \E heap0 \in {[o \in 1..2 |-> IF o = 1 \/ ~in.args.overwrite
                                      THEN in.b ELSE NoBundle]} :
       \E f1 \in {Preamble(Frame(in.args, heap0[w], picks, windows))} :
       \E f2 \in {UnitsStage(f1)} :
       \E f3 \in {FilterStage(self, f2)} :
       \E f4 \in {VelocityStage(f3)} :
       \E f5 \in {PickStage(self, f4)} :
       \E f6 \in {WindowStage(self, f5)} :
       \E f7 \in {CutTaperStage(self, f6)} :
       \E f \in {WeightStage(self, f7)} :
           /\ heap' = [heap0 EXCEPT ![w] = f.b]
           /\ picks' = f.picks
           /\ windows' = f.windows
           /\ call' = [status |-> IF f.st = "run" THEN "returned" ELSE "raised",
                       err |-> f.err,
                       args |-> in.args,
                       input |-> in.b,
                       ret |-> IF f.st = "run" THEN w ELSE 0,
                       cut |-> f.cut,
                       origin |-> f.origin,
                       hadPick |-> in.b.hasId /\ picks[in.b.id].in,
                       hadWindow |-> in.b.hasId /\ windows[in.b.id].in]
           /\ UNCHANGED <<ctor, self>>
           /\ UNCHANGED gridVars

Call == CallWith(CallInputs)

\* between two calls: the caller lets go of the bundle it passed and of the
\* one it got back; the instance keeps its caches
Release ==
    /\ call.status # "none"
    /\ call' = NoCall
    /\ heap' = [o \in 1..2 |-> NoBundle]
    /\ UNCHANGED <<ctor, self, picks, windows>>
    /\ UNCHANGED gridVars

PdNext == Call \/ Release

(***************************************************************************)
(* ProcessData.__init__ as one step                                        *)
(***************************************************************************)
\* The keyword arguments constructors are called with: every axis absent or
\* set, each of its parameters supplied or not, each path there or not.
PickKeyOf(pt) ==
    CASE pt = "from_taup_model" -> {"taup_model"}
      [] pt = "from_fk_metadata" -> {"fk_database"}
      [] pt = "from_pick_file" -> {"pick_file"}
      [] OTHER -> {}

WindowLengths == {-10, 0, 10}
SuppliedScalingPower == 20
SuppliedScalingDistance == 50

CtorValues(wl) ==
    [ParamValues EXCEPT !["window_length"] = wl,
                        !["scaling_power"] = SuppliedScalingPower,
                        !["scaling power"] = SuppliedScalingPower,
                        !["scaling_distance"] = SuppliedScalingDistance]

\* the ways an axis is configured: its type, the names supplied for it, and
\* which of the paths they name exist
AxisOption(type, keys, exists) == [type |-> type, keys |-> keys, exists |-> exists]

PickOptions ==
    { AxisOption(pt, k, e) :
        pt \in {None, "from_taup_model", "from_fk_metadata",
                "from_sac_metadata", "from_pick_file"},
        k \in SUBSET {"taup_model", "fk_database", "pick_file"},
        e \in SUBSET {"fk_database", "pick_file"} }

WindowOptions ==
    { [type |-> wt, keys |-> k, length |-> wl] :
        wt \in {None, "cap_bw", "cap_sw"},
        k \in SUBSET {"window_length"},
        wl \in WindowLengths }

WeightOptions ==
    { AxisOption(gt, k, e) :
        gt \in {None, "cap_bw", "cap_sw"},
        k \in SUBSET {"cap_weight_file", "scaling_power", "scaling_distance",
                      "scaling power"},
        e \in SUBSET {"cap_weight_file"} }

\* The options worth telling apart: no parameter of another strategy, no
\* path that exists without being supplied, one length when none is used,
\* no scaling parameter where construction fails before reading it.
PickOptionsKept ==
    { o \in PickOptions :
        o.keys \subseteq PickKeyOf(o.type) /\ o.exists \subseteq o.keys }

WindowOptionsKept ==
    { o \in WindowOptions :
        (o.type = None \/ o.keys = {}) => o.length = 10 }

WeightOptionsKept ==
    { o \in WeightOptions :
        /\ o.type = None => o.keys = {}
        /\ o.exists \subseteq o.keys
        /\ o.exists = {} => o.keys \subseteq {"cap_weight_file"} }

CtorParams ==
    { [filter_type |-> ft, pick_type |-> po.type, window_type |-> wo.type,
       weight_type |-> go.type,
       keys |-> (IF ft = "Bandpass" THEN {"freq_min", "freq_max"} ELSE {})
                \cup po.keys \cup wo.keys \cup go.keys,
       val |-> CtorValues(wo.length),
       exists |-> po.exists \cup go.exists] :
        ft \in {None, "Bandpass"},
        po \in PickOptionsKept,
        wo \in WindowOptionsKept,
        go \in WeightOptionsKept }

CtorInit ==
    /\ ctor = NoCtor
    /\ self = ProcessDataInit(NoCtor.p)
    /\ picks = [id \in Ids |-> NoPick]
    /\ windows = [id \in Ids |-> NoWindow]
    /\ heap = [o \in 1..2 |-> NoBundle]
    /\ call = NoCall

\* ProcessData(filter_type, pick_type, window_type, weight_type, **parameters)
Construct ==
    /\ ~ctor.done
    /\ \E p \in CtorParams :
          /\ ctor' = Constructed(p)
          /\ self' = ProcessDataInit(p)
    /\ UNCHANGED <<picks, windows, heap, call>>
    /\ UNCHANGED gridVars

\* the calls made on the instances so constructed: a data bundle and a
\* Green's function bundle of one station
CtorInputs ==
    { [b |-> InputBundle("A", tags, << <<"H", "Z">>, <<"H", "r">> >>, 1, "none"),
       args |-> InputArgs(1, "none", FALSE)] :
        tags \in {<<"units:cm", "type:velocity">>, <<"type:greens", "units:m">>} }

CtorCall == ctor.done /\ CallWith(CtorInputs)

CtorNext == Construct \/ CtorCall \/ Release

(***************************************************************************)
(* The collaborators grid_search is handed.                                *)
(***************************************************************************)
\* A source grid of length n: n distinct sources, named by their place.
Grid(n) == [j \in 1..n |-> j]

\* sources.partition(nproc): nproc contiguous parts which, joined in rank
\* order, give back the grid.  Any such split is allowed.
Partitions(sources, nproc) ==
    { p \in [1..nproc -> { SubSeq(sources, a, b) :
                              a \in 1..(Len(sources) + 1),
                              b \in 0..Len(sources) }] :
        Flatten(p) = sources }

\* the Green's functions, one entry per origin
Greens(origins) == [k \in 1..Len(origins) |-> [origin |-> origins[k],
                                                tensor |-> 10 * origins[k]]]

\* a select that hands back the Green's functions of every origin
GreensSelectAll(greens, origin) == greens

\* greens.select(origin)
GreensSelect(greens, origin) ==
    SelectSeq(greens, LAMBDA g : g.origin = origin)

\* ProgressCallback(start, stop, percent)
ProgressCallback(start, stop, percent) ==
    [start |-> start, stop |-> stop, percent |-> percent]

RECURSIVE TensorSum(_)
TensorSum(gsel) ==
    IF gsel = <<>> THEN 0 ELSE Head(gsel).tensor + TensorSum(Tail(gsel))

\* The misfit functions the model injects.  Each is a pure function of its
\* arguments (data, selected greens, sources, msg_handle) and returns one
\* column, shape (len(sources), 1):
\*   per_source  row j depends on the greens and on sources[j] alone
\*   grid_norm   row j also depends on the size of the grid it was handed
\*   progress    row j also depends on the progress handle
MisfitKinds == {"per_source", "grid_norm", "progress"}

Misfit(kind, data, gsel, sources, msg_handle) ==
    Matrix(Len(sources), 1,
           [j \in 1..Len(sources) |->
               << data + TensorSum(gsel) + sources[j]
                  + (IF kind = "grid_norm" THEN 100 * Len(sources) ELSE 0)
                  + (IF kind = "progress"
                     THEN 100 * msg_handle.stop + msg_handle.percent
                     ELSE 0) >>])

(***************************************************************************)
(* _grid_search_serial                                                     *)
(***************************************************************************)
\* the loop over origins from index i on: the list of columns, and the
\* misfit invocations made
RECURSIVE SerialLoop(_, _, _, _, _, _, _)
SerialLoop(data, greens, misfit, origins, sources, msg_interval, i) ==
    IF i > Len(origins)
    THEN [results |-> <<>>, calls |-> <<>>]
    ELSE LET ni == Len(origins)
             nj == Len(sources)
             msg_handle == ProgressCallback((i - 1) * nj, ni * nj, msg_interval)
             gsel == GreensSelect(greens, origins[i])
             col == Misfit(misfit, data, gsel, sources, msg_handle)
             rest == SerialLoop(data, greens, misfit, origins, sources,
                                msg_interval, i + 1)
         IN  [results |-> <<col>> \o rest.results,
              calls |-> << [origin |-> origins[i], greens |-> gsel,
                            sources |-> sources, msg_handle |-> msg_handle] >>
                        \o rest.calls]

GridSearchSerial(data, greens, misfit, origins, sources, msg_interval) ==
    LET loop == SerialLoop(data, greens, misfit, origins, sources,
                           msg_interval, 1)
    IN  IF ConcatAxis1Ok(loop.results)
        THEN [ok |-> TRUE, m |-> ConcatAxis1(loop.results), calls |-> loop.calls]
        ELSE [ok |-> FALSE, m |-> Matrix(0, 0, <<>>), calls |-> loop.calls]

(***************************************************************************)
(* _is_mpi_env                                                             *)
(***************************************************************************)
\* the test without the size of the communicator
IsMpiEnvIgnoringSize(env) == env.mpi4py

\* lines 109-123: mpi4py imports and the communicator has more than one
\* process
IsMpiEnv(env) == env.mpi4py /\ env.size > 1

(***************************************************************************)
(* grid_search, rank by rank                                               *)
(***************************************************************************)
AllRanks == 0..(MaxProcs - 1)
Ranks == 0..(gs.size - 1)

Data == 0

NoPart == [has |-> FALSE, part |-> <<>>]
NoLocal == [sources |-> <<>>, msg_interval |-> 0]

GridEnvs ==
    { e \in [mpi4py : BOOLEAN,
             size : 1..MaxProcs,
             allgather : BOOLEAN,
             msg_interval : {0, DefaultMsgInterval},
             sources : { Grid(n) : n \in 0..MaxSources },
             origins : { [k \in 1..n |-> k] : n \in 0..MaxOrigins },
             misfit : MisfitKinds] :
        \* without mpi4py there is no communicator: one process
        ~e.mpi4py => e.size = 1 }

GridIdle ==
    /\ gs = [mpi4py |-> FALSE, size |-> 1, allgather |-> FALSE,
             msg_interval |-> 0, sources |-> <<>>, origins |-> <<>>,
             misfit |-> "per_source"]
    /\ pc = [r \in AllRanks |-> "absent"]
    /\ inbox = [r \in AllRanks |-> NoPart]
    /\ local = [r \in AllRanks |-> NoLocal]
    /\ partial = [r \in AllRanks |-> NoMatrix]
    /\ calls = [r \in AllRanks |-> <<>>]
    /\ ret = [r \in AllRanks |-> NoMatrix]
    /\ coll = [r \in AllRanks |-> <<>>]

GridInit ==
    /\ gs \in GridEnvs
    /\ pc = [r \in AllRanks |-> IF r < gs.size THEN "call" ELSE "absent"]
    /\ inbox = [r \in AllRanks |-> NoPart]
    /\ local = [r \in AllRanks |-> NoLocal]
    /\ partial = [r \in AllRanks |-> NoMatrix]
    /\ calls = [r \in AllRanks |-> <<>>]
    /\ ret = [r \in AllRanks |-> NoMatrix]
    /\ coll = [r \in AllRanks |-> <<>>]

\* the msg_interval a rank hands to _grid_search_serial inside MPI
RankInterval(r, msg_interval) == IF r # 0 THEN 0 ELSE msg_interval

\* a scatter that hands rank r the part of the next rank
ScatterToShifted(parts, r) == parts[((r + 1) % Len(parts)) + 1]

\* comm.scatter(parts, root=0): rank r is handed the r-th part
ScatterTo(parts, r) == parts[r + 1]

\* lines 60-63: the rank enters grid_search
Enter(r) ==
    /\ pc[r] = "call"
    /\ IF IsMpiEnv(gs)
       THEN /\ pc' = [pc EXCEPT ![r] = "scatter"]
            /\ UNCHANGED local
       ELSE /\ pc' = [pc EXCEPT ![r] = "serial"]
            /\ local' = [local EXCEPT ![r] =
                            [sources |-> gs.sources,
                             msg_interval |-> gs.msg_interval]]
    /\ UNCHANGED <<gs, inbox, partial, calls, ret, coll>>
    /\ UNCHANGED pdVars

\* lines 66-68 on rank 0: partition, then scatter as the root
ScatterRoot ==
    /\ pc[0] = "scatter"
    /\ \E parts \in Partitions(gs.sources, gs.size) :
          /\ inbox' = [r \in AllRanks |->
                          IF r \in Ranks /\ r # 0
                          THEN [has |-> TRUE, part |-> ScatterTo(parts, r)]
                          ELSE inbox[r]]
          /\ local' = [local EXCEPT ![0] =
                          [sources |-> ScatterTo(parts, 0),
                           msg_interval |-> RankInterval(0, gs.msg_interval)]]
    /\ pc' = [pc EXCEPT ![0] = "serial"]
    /\ coll' = [coll EXCEPT ![0] = Append(@, "scatter")]
    /\ UNCHANGED <<gs, partial, calls, ret>>
    /\ UNCHANGED pdVars

\* lines 68-71 on the other ranks: scatter returns once the root has sent
ScatterRecv(r) ==
    /\ r # 0
    /\ pc[r] = "scatter"
    /\ inbox[r].has
    /\ local' = [local EXCEPT ![r] =
                    [sources |-> inbox[r].part,
                     msg_interval |-> RankInterval(r, gs.msg_interval)]]
    /\ inbox' = [inbox EXCEPT ![r] = NoPart]
    /\ pc' = [pc EXCEPT ![r] = "serial"]
    /\ coll' = [coll EXCEPT ![r] = Append(@, "scatter")]
    /\ UNCHANGED <<gs, partial, calls, ret>>
    /\ UNCHANGED pdVars

\* a gather that lists the ranks' results from the last rank down
AllgatherReversed(env, results) ==
    [k \in 1..env.size |-> results[env.size - k].m]

\* comm.allgather(results): the ranks' results, in rank order
Allgather(env, results) == [k \in 1..env.size |-> results[k - 1].m]

\* the test of line 76 without the caller's flag
GathersAlways(env) == IsMpiEnv(env)

\* line 76: allgather and _is_mpi_env()
Gathers(env) == env.allgather /\ IsMpiEnv(env)

\* an allgather that hands back what is there without waiting for the others
EveryRankEnteredOrNot(pcs) == TRUE

\* comm.allgather is a collective: it returns on no rank before every rank
\* of the communicator has entered it
EveryRankEntered(pcs) == \A q \in Ranks : pcs[q] \in {"allgather", "done"}

\* lines 73-81: the serial evaluation, and the return when nothing is gathered
Serial(r) ==
    /\ pc[r] = "serial"
    /\ LET res == GridSearchSerial(Data, Greens(gs.origins), gs.misfit,
                                   gs.origins, local[r].sources,
                                   local[r].msg_interval)
       IN  /\ calls' = [calls EXCEPT ![r] = res.calls]
           /\ IF ~res.ok
              THEN /\ pc' = [pc EXCEPT ![r] = "raised"]
                   /\ UNCHANGED <<partial, ret>>
              ELSE /\ partial' = [partial EXCEPT ![r] = Some(res.m)]
                   /\ IF Gathers(gs)
                      THEN /\ pc' = [pc EXCEPT ![r] = "allgather"]
                           /\ UNCHANGED ret
                      ELSE /\ pc' = [pc EXCEPT ![r] = "done"]
                           /\ ret' = [ret EXCEPT ![r] = Some(res.m)]
    /\ UNCHANGED <<gs, inbox, local, coll>>
    /\ UNCHANGED pdVars

\* line 78: allgather returns on a rank once every rank has entered it
AllGatherReturn(r) ==
    /\ pc[r] = "allgather"
    /\ EveryRankEntered(pc)
    /\ ret' = [ret EXCEPT ![r] = Some(ConcatAxis0(Allgather(gs, partial)))]
    /\ pc' = [pc EXCEPT ![r] = "done"]
    /\ coll' = [coll EXCEPT ![r] = Append(@, "allgather")]
    /\ UNCHANGED <<gs, inbox, local, partial, calls>>
    /\ UNCHANGED pdVars

GridNext ==
    \/ \E r \in Ranks : Enter(r)
    \/ ScatterRoot
    \/ \E r \in Ranks : ScatterRecv(r)
    \/ \E r \in Ranks : Serial(r)
    \/ \E r \in Ranks : AllGatherReturn(r)

\* no ProcessData instance is in play
PdIdle ==
    /\ ctor = NoCtor
    /\ self = ProcessDataInit(NoCtor.p)
    /\ picks = [id \in Ids |-> NoPick]
    /\ windows = [id \in Ids |-> NoWindow]
    /\ heap = [o \in 1..2 |-> NoBundle]
    /\ call = NoCall

InitGrid == GridInit /\ PdIdle

SpecGrid == InitGrid /\ [][GridNext]_vars

InitPd == PdInit /\ GridIdle

Spec == InitPd /\ [][PdNext]_vars

InitCtor == CtorInit /\ GridIdle

SpecCtor == InitCtor /\ [][CtorNext]_vars

(***************************************************************************)
(* Claims about grid_search                                                *)
(***************************************************************************)
\* what _grid_search_serial returns on the whole grid with the caller's
\* msg_interval
SerialOnFullGrid ==
    GridSearchSerial(Data, Greens(gs.origins), gs.misfit, gs.origins,
                     gs.sources, gs.msg_interval)

AllEvaluated == \A q \in Ranks : partial[q].has

\* the per-rank results, one block under the other in rank order
StackedPartials ==
    ConcatAxis0([k \in 1..gs.size |-> partial[k - 1].m])

\* C1 (as amended): for a misfit function whose value for a source depends
\* only on the data, the selected Green's functions and that source, the
\* matrices _grid_search_serial returns on the parts of any partition,
\* stacked along the source axis in rank order, equal the matrix it returns
\* on the unpartitioned grid.
C1_GatherConsistencyPerSource ==
    (IsMpiEnv(gs) /\ AllEvaluated /\ gs.misfit = "per_source")
        => StackedPartials = SerialOnFullGrid.m

\* C1 (as stated): the same for every misfit function that is a pure
\* function of its inputs.
C1_GatherConsistencyAnyPure ==
    (IsMpiEnv(gs) /\ AllEvaluated) => StackedPartials = SerialOnFullGrid.m

C1_Witness ==
    /\ IsMpiEnv(gs) /\ AllEvaluated /\ gs.misfit = "per_source"
    /\ Len(gs.origins) >= 2
    /\ Cardinality({q \in Ranks : local[q].sources # <<>>}) >= 2
    /\ StackedPartials = SerialOnFullGrid.m

\* the first row of rank q's block in the gathered matrix
RECURSIVE Offset(_)
Offset(q) == IF q = 0 THEN 0 ELSE Offset(q - 1) + partial[q - 1].m.nj

\* C2: with allgather=True in a multi-process run every rank returns the
\* same matrix, of shape (len(full grid), len(origins)), whose row blocks are
\* the ranks' partial results in rank order, whatever order the ranks finish
\* in.
C2_AllgatherRankOrder ==
    \A r \in Ranks :
        (IsMpiEnv(gs) /\ gs.allgather /\ pc[r] = "done") =>
            /\ ret[r].has
            /\ ret[r].m.nj = Len(gs.sources)
            /\ ret[r].m.ni = Len(gs.origins)
            /\ Len(ret[r].m.val) = Len(gs.sources)
            /\ \A q \in Ranks : \A j \in 1..partial[q].m.nj :
                  ret[r].m.val[Offset(q) + j] = partial[q].m.val[j]
            /\ \A q \in Ranks : pc[q] = "done" => ret[q] = ret[r]

C2_Witness ==
    /\ IsMpiEnv(gs) /\ gs.allgather /\ gs.size >= 3
    /\ \A r \in Ranks : pc[r] = "done" /\ ret[r].has
    /\ Len(gs.sources) >= 3 /\ Len(gs.origins) >= 2
    /\ \A q \in Ranks : partial[q].m.nj >= 1
    /\ gs.misfit = "grid_norm"

\* C3: without an active multi-process runtime (no mpi4py, or a communicator
\* of size 1) grid_search takes part in no scatter or gather, and returns
\* (or raises) exactly as _grid_search_serial does on the whole grid with
\* the caller's msg_interval, whatever allgather is.
C3_SingleProcessIsSerial ==
    (~gs.mpi4py \/ gs.size = 1) =>
        /\ \A r \in AllRanks : coll[r] = <<>> /\ ~inbox[r].has
        /\ pc[0] = "done" =>
              /\ SerialOnFullGrid.ok
              /\ ret[0] = Some(SerialOnFullGrid.m)
              /\ calls[0] = SerialOnFullGrid.calls
        /\ pc[0] = "raised" => ~SerialOnFullGrid.ok /\ ~ret[0].has

C3_Witness ==
    /\ gs.mpi4py /\ gs.size = 1 /\ gs.allgather
    /\ gs.msg_interval = DefaultMsgInterval
    /\ pc[0] = "done"
    /\ Len(gs.sources) >= 2 /\ Len(gs.origins) >= 2
    /\ ret[0].m.nj = Len(gs.sources) /\ ret[0].m.ni = Len(gs.origins)

(***************************************************************************)
(* Claims about ProcessData                                                *)
(***************************************************************************)
Returned == call.status = "returned"
IsGreens(b) == b.hasTags /\ InTags(b.tags, "type:greens")
Weighted == self.weight_type \in {"cap_bw", "cap_sw"}

\* the traces of the bundle the call returned
Out == heap[call.ret].traces
In == call.input.traces

HasOp(trace, op) == \E n \in 1..Len(trace.data) : trace.data[n] = op

ChannelsOf(traces) == [k \in 1..Len(traces) |-> traces[k].channel]

Count(traces, channel) ==
    Cardinality({k \in 1..Len(traces) : traces[k].channel = channel})

\* the weight the configured strategy resolves for an input trace
WeightOf(trace) ==
    ResolvedWeight(self.weight_type, WeightTable, call.input.id,
                   Component(trace.channel))

\* C4: once a window is cached for an identifier, no step changes it, and a
\* call that returns for a bundle with that identifier has cut every trace
\* to bounds taken from it: the window itself for data, the window widened
\* by padding_length at both ends for Green's functions.
C4_WindowCacheReuse ==
    [][\A id \in Ids :
          windows[id].in =>
              /\ windows'[id] = windows[id]
              /\ (call'.status = "returned" /\ call.status = "none"
                  /\ call'.input.id = id) =>
                    LET pad == IF IsGreens(call'.input)
                               THEN self.padding_length ELSE 0
                        lo == windows[id].t1 - pad
                        hi == windows[id].t2 + pad
                    IN  /\ call'.cut = [has |-> TRUE, starttime |-> lo,
                                        endtime |-> hi]
                        /\ \A k \in 1..Len(heap'[call'.ret].traces) :
                              HasOp(heap'[call'.ret].traces[k],
                                    Op("cut", lo, hi, 0))]_vars

\* a Green's function bundle of another origin is cut with the window an
\* earlier call cached, which ends before this call's origin time
C4_Witness ==
    /\ Returned /\ call.hadWindow /\ IsGreens(call.input)
    /\ call.cut.has
    /\ call.cut.endtime < OriginTime(call.origin)
    /\ call.cut.starttime = windows[call.input.id].t1 - self.padding_length
    /\ self.padding_length > 0

\* C5: once an identifier has a pick record, no later step changes its P
\* and S values.
C5_PicksNeverRewritten ==
    [][\A id \in Ids : picks[id].in => picks'[id] = picks[id]]_vars

\* C6: for a bundle that is not Green's functions, weighted with cap_bw or
\* cap_sw, no trace whose resolved weight is 0 is in the output, and every
\* trace whose resolved weight is positive is, with that weight as its weight
\* attribute, whatever the number and order of the traces.
C6_WeightExclusion ==
    (Returned /\ Weighted /\ ~IsGreens(call.input)) =>
        \A k \in 1..Len(In) :
            In[k].channel # <<>> =>
                /\ WeightOf(In[k]) = 0 => Count(Out, In[k].channel) = 0
                /\ WeightOf(In[k]) > 0 =>
                      /\ Count(Out, In[k].channel) = Count(In, In[k].channel)
                      /\ \A n \in 1..Len(Out) :
                            Out[n].channel = In[k].channel =>
                                /\ Out[n].hasWeight
                                /\ Out[n].weight = WeightOf(In[k])

\* two traces of weight 0 in a row are both gone
C6_Witness ==
    /\ Returned /\ Weighted /\ ~IsGreens(call.input)
    /\ call.input.id \in DOMAIN WeightTable
    /\ Len(In) = 2
    /\ In[1].channel # <<>> /\ WeightOf(In[1]) = 0
    /\ In[2].channel # <<>> /\ WeightOf(In[2]) = 0
    /\ Out = <<>>

\* C7: with a weight_type configured, a call on a bundle that is not Green's
\* functions and whose identifier has no row in the weight table returns an
\* empty bundle, whatever traces the bundle holds.
C7_AbsentIdEmptiesBundle ==
    (Returned /\ Weighted /\ ~IsGreens(call.input)
     /\ call.input.id \notin DOMAIN WeightTable) => Out = <<>>

\* C8: with a weight_type configured, a trace of a bundle that is not
\* Green's functions whose resolved weight is negative is not in the output.
C8_NegativeWeightRemoved ==
    (Returned /\ Weighted /\ ~IsGreens(call.input)) =>
        \A k \in 1..Len(In) :
            (In[k].channel # <<>> /\ WeightOf(In[k]) < 0) =>
                Count(Out, In[k].channel) = 0

\* the scaling the weighting stage applies for the call's origin
ScaleOp ==
    Op("scale", DistanceOf(call.origin), self.scaling_distance,
       self.scaling_power)

\* C9 (as amended): for a Green's function bundle weighted with cap_bw or
\* cap_sw no trace is removed and no weight attribute is set, but the
\* samples of every trace are multiplied by the distance scaling factor,
\* after the taper.
C9_GreensKeptUnweightedScaled ==
    (Returned /\ Weighted /\ IsGreens(call.input)) =>
        /\ ChannelsOf(Out) = ChannelsOf(In)
        /\ \A k \in 1..Len(Out) :
              /\ ~Out[k].hasWeight
              /\ Len(Out[k].data) >= 2
              /\ Out[k].data[Len(Out[k].data)] = ScaleOp
              /\ Out[k].data[Len(Out[k].data) - 1] = Op("taper", 0, 0, 0)

\* C9 (as stated): ... and the samples are not multiplied by the scaling
\* factor: the bundle is as the cut and taper left it.
C9_GreensUntouched ==
    (Returned /\ Weighted /\ IsGreens(call.input)) =>
        /\ ChannelsOf(Out) = ChannelsOf(In)
        /\ \A k \in 1..Len(Out) :
              /\ ~Out[k].hasWeight
              /\ ~HasOp(Out[k], ScaleOp)
              /\ Out[k].data[Len(Out[k].data)] = Op("taper", 0, 0, 0)

\* a Green's function bundle with a trace that would be dropped from data
C9_Witness ==
    /\ Returned /\ Weighted /\ IsGreens(call.input)
    /\ Len(In) = 2 /\ Len(Out) = 2
    /\ \E k \in 1..2 : In[k].channel # <<>> /\ WeightOf(In[k]) = 0
    /\ HasOp(Out[1], ScaleOp)

\* C10: with overwrite=False the caller's bundle is after the call what it
\* was before it, whether the call returned or raised, and the bundle
\* returned is another object; with overwrite=True the bundle returned is
\* the caller's.
C10_InputUntouched ==
    call.status # "none" =>
        /\ ~call.args.overwrite => heap[1] = call.input
        /\ (~call.args.overwrite /\ Returned) => call.ret = 2
        /\ (call.args.overwrite /\ Returned) => call.ret = 1

\* the copy was retagged, cut and lost a trace; the input was not
C10_Witness ==
    /\ Returned /\ ~call.args.overwrite
    /\ heap[1] = call.input
    /\ heap[2].tags # call.input.tags
    /\ Len(heap[2].traces) < Len(call.input.traces)
    /\ call.cut.has


(***************************************************************************)
(* Claims about ProcessData.__init__                                       *)
(***************************************************************************)
FilterParams == {"period_min", "period_max", "freq_min", "freq_max", "freq",
                 "period"}
PickParams == {"taup_model", "fk_database", "pick_file"}
WindowParams == {"window_length", "padding_length"}
WeightParams == {"cap_weight_file", "scaling_power", "scaling_distance",
                 "scaling power"}

\* the axis is not set and none of its parameters is supplied
AxisAbsent(type, params) == type = None /\ ctor.p.keys \cap params = {}

\* every axis is either absent or a strategy whose own parameters pass
AxesAbsentOrValid ==
    /\ AxisAbsent(ctor.p.filter_type, FilterParams)
       \/ (ctor.p.filter_type # None /\ FilterCheck(ctor.p) = "")
    /\ AxisAbsent(ctor.p.pick_type, PickParams)
       \/ (ctor.p.pick_type # None /\ PickCheck(ctor.p) = "")
    /\ AxisAbsent(ctor.p.window_type, WindowParams)
       \/ (ctor.p.window_type # None /\ WindowCheck(ctor.p) = "")
    /\ AxisAbsent(ctor.p.weight_type, WeightParams)
       \/ (ctor.p.weight_type # None /\ WeightCheck(ctor.p) = "")

\* C11: with every axis either absent (None, none of its parameters
\* supplied) or validly configured, construction succeeds, whichever axes
\* are the absent ones; and a call on the instance skips the stage of an
\* absent axis: no pick is cached without pick_type, nothing is windowed or
\* cut without window_type.
C11_AxesIndependentlyAbsent ==
    (ctor.done /\ AxesAbsentOrValid) =>
        /\ self.ok
        /\ self.pick_type = None => \A id \in Ids : ~picks[id].in
        /\ self.window_type = None =>
              /\ \A id \in Ids : ~windows[id].in
              /\ ~call.cut.has

\* C12: with window_type cap_bw or cap_sw, construction succeeds only when
\* window_length is supplied and positive.
C12_WindowLengthPositive ==
    (ctor.done /\ ctor.p.window_type \in {"cap_bw", "cap_sw"} /\ self.ok) =>
        /\ "window_length" \in ctor.p.keys
        /\ ctor.p.val["window_length"] > 0

\* the strategy names a path, and nothing is there
PathMissing(name) == name \notin ctor.p.exists

\* C13: construction fails whenever the pick or weight strategy names a
\* path that does not exist: fk_database for from_fk_metadata, pick_file
\* for from_pick_file, cap_weight_file for cap_bw and cap_sw.
C13_MissingPathFailsAtConstruction ==
    (/\ ctor.done
     /\ \/ ctor.p.pick_type = "from_fk_metadata" /\ PathMissing("fk_database")
        \/ ctor.p.pick_type = "from_pick_file" /\ PathMissing("pick_file")
        \/ ctor.p.weight_type \in {"cap_bw", "cap_sw"}
           /\ PathMissing("cap_weight_file"))
    => ~self.ok

\* the exponent and distance the caller asked for, or the defaults
WantedScalingPower ==
    IF "scaling_power" \in ctor.p.keys THEN ctor.p.val["scaling_power"]
    ELSE IF ctor.p.weight_type = "cap_bw" THEN BwScalingPower
    ELSE SwScalingPower

WantedScalingDistance ==
    IF "scaling_distance" \in ctor.p.keys THEN ctor.p.val["scaling_distance"]
    ELSE DefaultScalingDistance

\* C14: with weight_type cap_bw or cap_sw the instance scales with the
\* caller's scaling_power when one is supplied and with the default (1.0 for
\* cap_bw, 0.5 for cap_sw) otherwise, and with the caller's scaling_distance
\* when supplied and 1e5 otherwise; the samples of a returned bundle are
\* scaled with these.
C14_ScalingParameters ==
    (ctor.done /\ self.ok /\ ctor.p.weight_type \in {"cap_bw", "cap_sw"}) =>
        /\ self.scaling_power = WantedScalingPower
        /\ self.scaling_distance = WantedScalingDistance
        /\ call.status = "returned" =>
              \A k \in 1..Len(heap[call.ret].traces) :
                  HasOp(heap[call.ret].traces[k],
                        Op("scale", DistanceOf(call.origin),
                           WantedScalingDistance, WantedScalingPower))

(***************************************************************************)
(* Claims about ProcessData.__call__, continued                            *)
(***************************************************************************)
\* the station or the origin cannot be resolved, or the bundle has no
\* identifier or no tags
MetadataMissing(args, b) ==
    \/ ResolveStation(args, b) = 0
    \/ ResolveOrigin(args, b) = 0
    \/ ~b.hasId
    \/ ~b.hasTags

\* C15: a call made with the station or the origin unresolvable, or on a
\* bundle without identifier or tags, raises; the caller's bundle is what it
\* was (also with overwrite=True), so is the copy when one was made, and the
\* pick and window caches are what they were.
C15_MissingMetadataRaisesUntouched ==
    [][(call.status = "none" /\ call'.status # "none"
        /\ MetadataMissing(call'.args, call'.input)) =>
            /\ call'.status = "raised"
            /\ heap'[1] = call'.input
            /\ ~call'.args.overwrite => heap'[2] = call'.input
            /\ picks' = picks
            /\ windows' = windows]_vars

\* a bundle without tags, to be overwritten, on an instance that would
\* convert its units, pick and window it
C15_Witness ==
    /\ call.status = "raised" /\ call.err = "Missing tags attribute"
    /\ call.args.overwrite /\ ~call.input.hasTags
    /\ heap[1] = call.input
    /\ self.pick_type # None /\ self.window_type # None
    /\ ~picks[call.input.id].in

(***************************************************************************)
(* Claims about grid_search, continued                                     *)
(***************************************************************************)
\* what _grid_search_serial returns on rank r's partition
SerialOnPartition(r) ==
    GridSearchSerial(Data, Greens(gs.origins), gs.misfit, gs.origins,
                     local[r].sources, local[r].msg_interval)

\* C16: in a multi-process run with allgather=False a rank that returns,
\* returns the matrix _grid_search_serial computed from its own partition, of
\* shape (len(its partition), len(origins)), and the scatter is the only
\* collective operation any rank takes part in.
C16_NoGatherReturnsPartial ==
    (IsMpiEnv(gs) /\ ~gs.allgather) =>
        \A r \in Ranks :
            /\ coll[r] \in {<<>>, <<"scatter">>}
            /\ pc[r] = "done" =>
                  /\ coll[r] = <<"scatter">>
                  /\ ret[r] = Some(SerialOnPartition(r).m)
                  /\ ret[r].m.nj = Len(local[r].sources)
                  /\ ret[r].m.ni = Len(gs.origins)
                  /\ Len(ret[r].m.val) = Len(local[r].sources)

\* three ranks have returned three different partial matrices
C16_Witness ==
    /\ IsMpiEnv(gs) /\ ~gs.allgather /\ gs.size >= 3
    /\ Len(gs.origins) >= 2
    /\ \A r \in Ranks : pc[r] = "done" /\ ret[r].has
    /\ \A r \in Ranks : ret[r].m.nj < Len(gs.sources)
    /\ \A q, r \in Ranks : q # r => ret[q] # ret[r]

(***************************************************************************)
(* Claims about windows and picks                                          *)
(***************************************************************************)
\* the window [T0 + x - frac*L, T0 + x + (1 - frac)*L], frac in tenths
IsCapWindow(window, T0, x, tenths, L) ==
    /\ window.in
    /\ 10 * (window.t1 - T0 - x) = -tenths * L
    /\ 10 * (window.t2 - T0 - x) = (10 - tenths) * L
    /\ window.t2 - window.t1 = L

\* C17: the first call that returns for an identifier caches the window
\* [T0 + P - 0.4*L, T0 + P + 0.6*L] with cap_bw and [T0 + S - 0.3*L,
\* T0 + S + 0.7*L] with cap_sw, of length L; every call that returns has cut
\* every trace to the cached window, widened by padding_length at both ends
\* for a bundle tagged type:greens and as it is otherwise; the cached window
\* holds no padding.
C17_CutBounds ==
    [][(call.status = "none" /\ call'.status = "returned"
        /\ self.window_type # None) =>
          LET id == call'.input.id
              T0 == OriginTime(call'.origin)
              L == self.window_length
              pad == IF IsGreens(call'.input) THEN self.padding_length ELSE 0
              out == heap'[call'.ret].traces
          IN  /\ ~windows[id].in =>
                    IF self.window_type = "cap_bw"
                    THEN IsCapWindow(windows'[id], T0, picks'[id].P.v, 4, L)
                    ELSE IsCapWindow(windows'[id], T0, picks'[id].S.v, 3, L)
              /\ windows'[id].in
              /\ call'.cut.has
              /\ call'.cut.starttime = windows'[id].t1 - pad
              /\ call'.cut.endtime = windows'[id].t2 + pad
              /\ \A k \in 1..Len(out) :
                    /\ HasOp(out[k], Op("cut", windows'[id].t1 - pad,
                                        windows'[id].t2 + pad, 0))
                    /\ \A n \in 1..Len(out[k].data) :
                          out[k].data[n].op = "cut" =>
                              out[k].data[n] = Op("cut", windows'[id].t1 - pad,
                                                  windows'[id].t2 + pad, 0)]_vars

\* the first call for the identifier was on Green's functions: they are cut
\* to the padded surface wave window, and the window cached is the unpadded
\* one
C17_Witness ==
    /\ Returned /\ ~call.hadWindow /\ IsGreens(call.input)
    /\ self.window_type = "cap_sw" /\ self.padding_length > 0
    /\ IsCapWindow(windows[call.input.id], OriginTime(call.origin),
                   picks[call.input.id].S.v, 3, self.window_length)
    /\ call.cut.starttime = windows[call.input.id].t1 - self.padding_length
    /\ call.cut.endtime = windows[call.input.id].t2 + self.padding_length
    /\ Len(Out) >= 1

(***************************************************************************)
(* Claims about _grid_search_serial                                        *)
(***************************************************************************)
\* rank r is past its serial evaluation
Evaluated(r) == pc[r] \in {"allgather", "done", "raised"}

\* C18: _grid_search_serial invokes misfit once per origin, in the order of
\* the origins, with the Green's functions selected for that origin and the
\* whole of the sources it was given; the matrix it returns has shape
\* (len(sources), len(origins)), and its column i is the column misfit
\* returned for origin i: entry (j, i) is source j at origin i.
C18_SerialInvocationOrder ==
    \A r \in Ranks :
        Evaluated(r) =>
            /\ Len(calls[r]) = Len(gs.origins)
            /\ \A i \in 1..Len(calls[r]) :
                  /\ calls[r][i].origin = gs.origins[i]
                  /\ calls[r][i].greens =
                        SelectSeq(Greens(gs.origins),
                                  LAMBDA g : g.origin = gs.origins[i])
                  /\ calls[r][i].sources = local[r].sources
            /\ partial[r].has =>
                  /\ partial[r].m.nj = Len(local[r].sources)
                  /\ partial[r].m.ni = Len(gs.origins)
                  /\ Len(partial[r].m.val) = Len(local[r].sources)
                  /\ \A j \in 1..Len(local[r].sources) :
                        /\ Len(partial[r].m.val[j]) = Len(gs.origins)
                        /\ \A i \in 1..Len(gs.origins) :
                              partial[r].m.val[j][i] =
                                  Misfit(gs.misfit, Data, calls[r][i].greens,
                                         calls[r][i].sources,
                                         calls[r][i].msg_handle).val[j][1]

\* the whole grid, evaluated in one process at several origins: the entries
\* differ from row to row and from column to column
C18_Witness ==
    /\ ~IsMpiEnv(gs) /\ pc[0] = "done" /\ partial[0].has
    /\ Len(gs.origins) >= 2 /\ Len(gs.sources) >= 2
    /\ Len(calls[0]) = Len(gs.origins)
    /\ partial[0].m.val[1][1] # partial[0].m.val[1][2]
    /\ partial[0].m.val[1][1] # partial[0].m.val[2][1]

(***************************************************************************)
(* The gather as a barrier                                                 *)
(***************************************************************************)
\* C19: in a multi-process run with allgather=True no rank has returned
\* unless every rank has finished its serial evaluation and entered the
\* gather; and if some rank's evaluation never finishes, no rank ever
\* returns.
C19_GatherBarrier ==
    /\ [](Gathers(gs) =>
            \A r \in Ranks :
                pc[r] = "done" =>
                    \A q \in Ranks :
                        partial[q].has /\ pc[q] \in {"allgather", "done"})
    /\ \A q \in AllRanks :
          [](Gathers(gs) /\ q \in Ranks /\ ~partial[q].has)
              => [](\A r \in Ranks : pc[r] # "done")

\* a rank waits in the gather with its result while another is still
\* evaluating, and none has returned
C19_Witness ==
    /\ Gathers(gs) /\ gs.size >= 3
    /\ \E r \in Ranks : pc[r] = "allgather" /\ partial[r].has
    /\ \E q \in Ranks : pc[q] = "serial" /\ ~partial[q].has
    /\ \A r \in Ranks : pc[r] # "done" /\ ~ret[r].has

(***************************************************************************)
(* The pick cache                                                          *)
(***************************************************************************)
\* C20: every identifier that has a record in the pick cache has both its P
\* and its S value, whatever calls were made and however they ended.
C20_PickCacheComplete ==
    \A id \in Ids : picks[id].in => (picks[id].P.has /\ picks[id].S.has)

====
